---------------------------- MODULE Spec2Model ----------------------------
(***************************************************************************)
(* A model of the OCR bank-statement parser of extraction_script.py:       *)
(* isolate_transactions, _split_amounts, parse_transactions,               *)
(* apply_corrections and the pipeline of main().                           *)
(*                                                                         *)
(* Text is modelled by TLA+ strings: Len, SubSeq and \o act on strings as  *)
(* on sequences of characters.  A TLA+ string holds the characters up to   *)
(* U+00FF only, so a Python str is carried as its UTF-8 encoding, one      *)
(* character of the string per byte: an ASCII character is itself, and a   *)
(* code point cp from U+0080 on is the 2 to 4 characters Utf8(cp).         *)
(* Python's str methods and the regular expressions are operators computed *)
(* the way CPython computes them on a str (leftmost match, greedy          *)
(* quantifiers, Unicode whitespace and Unicode decimal digits).            *)
(***************************************************************************)
EXTENDS Integers, Sequences, FiniteSets, TLC

VARIABLES
    pc,            \* position of the running function / of main()
    text,          \* _split_amounts: its argument
    split_ret,     \* _split_amounts: the returned (desc, amount, balance)
    raw_text,      \* isolate_transactions: its argument (the OCR text)
    section,       \* isolate_transactions: the returned line list
    lines,         \* parse_transactions: its argument
    idx,           \* parse_transactions: 1-based position of the for loop
    current,       \* parse_transactions: the open record, or None
    parsed,        \* the record list as apply_corrections received it
    transactions   \* the record list (built by parse_transactions,
                   \* rewritten in place by apply_corrections)

vars == <<pc, text, split_ret, raw_text, section, lines, idx, current,
          parsed, transactions>>

-----------------------------------------------------------------------------
(* Bounds of the model.                                                    *)

MaxRawLines == 4

MaxParseLines == 3

-----------------------------------------------------------------------------
(* Characters and Python's str methods.                                    *)

None == <<>>

\* The characters U+0080 to U+00FF in order: the values a byte of the
\* encoding of a non-ASCII code point takes.
HighBytes ==
    " ¡¢£¤¥¦§¨©ª«¬­®¯°±²³´µ¶·¸¹º»¼½¾¿ÀÁÂÃÄÅÆÇÈÉÊËÌÍÎÏÐÑÒÓÔÕÖ×ØÙÚÛÜÝÞßàáâãäåæçèéêëìíîïðñòóôõö÷øùúûüýþÿ"

\* the character that stands for the byte b, 128 <= b <= 255
Byte(b) == SubSeq(HighBytes, b - 127, b - 127)

\* The UTF-8 encoding of the code point cp >= 128: what the str holding
\* chr(cp) is in the model.
Utf8(cp) ==
    IF cp < 2048
    THEN Byte(192 + (cp \div 64)) \o Byte(128 + (cp % 64))
    ELSE IF cp < 65536
    THEN Byte(224 + (cp \div 4096)) \o Byte(128 + ((cp \div 64) % 64))
         \o Byte(128 + (cp % 64))
    ELSE Byte(240 + (cp \div 262144)) \o Byte(128 + ((cp \div 4096) % 64))
         \o Byte(128 + ((cp \div 64) % 64)) \o Byte(128 + (cp % 64))

\* What str.strip() removes and \s of a str pattern matches: the characters
\* str.isspace() holds of, each as its encoding.  A row holds the code
\* points named at its right.
Whitespace ==
    {
      " ", "\t", "\n", "", "\f", "\r",   \* U+0020, U+0009 to U+000D
      "", "", "", "",                  \* U+001C to U+001F
      "Â", "Â ",                            \* U+0085, U+00A0
      "á",                                   \* U+1680
      "â", "â", "â", "â", "â", "â",         \* U+2000 to U+2005
      "â", "â", "â", "â", "â",                \* U+2006 to U+200A
      "â¨", "â©", "â¯", "â",                  \* U+2028, U+2029, U+202F, U+205F
      "ã" }                                 \* U+3000

\* What \d of a str pattern matches: the decimal digits (category Nd) of
\* every script, Unicode 14.0, each as its encoding.  Two rows hold the ten
\* digits of a block, from the zero named at the right.
Digits ==
    {
      "0", "1", "2", "3", "4",
      "5", "6", "7", "8", "9",   \* U+0030
      "Ù ", "Ù¡", "Ù¢", "Ù£", "Ù¤",
      "Ù¥", "Ù¦", "Ù§", "Ù¨", "Ù©",   \* U+0660
      "Û°", "Û±", "Û²", "Û³", "Û´",
      "Ûµ", "Û¶", "Û·", "Û¸", "Û¹",   \* U+06F0
      "ß", "ß", "ß", "ß", "ß",
      "ß", "ß", "ß", "ß", "ß",   \* U+07C0
      "à¥¦", "à¥§", "à¥¨", "à¥©", "à¥ª",
      "à¥«", "à¥¬", "à¥­", "à¥®", "à¥¯",   \* U+0966
      "à§¦", "à§§", "à§¨", "à§©", "à§ª",
      "à§«", "à§¬", "à§­", "à§®", "à§¯",   \* U+09E6
      "à©¦", "à©§", "à©¨", "à©©", "à©ª",
      "à©«", "à©¬", "à©­", "à©®", "à©¯",   \* U+0A66
      "à«¦", "à«§", "à«¨", "à«©", "à«ª",
      "à««", "à«¬", "à«­", "à«®", "à«¯",   \* U+0AE6
      "à­¦", "à­§", "à­¨", "à­©", "à­ª",
      "à­«", "à­¬", "à­­", "à­®", "à­¯",   \* U+0B66
      "à¯¦", "à¯§", "à¯¨", "à¯©", "à¯ª",
      "à¯«", "à¯¬", "à¯­", "à¯®", "à¯¯",   \* U+0BE6
      "à±¦", "à±§", "à±¨", "à±©", "à±ª",
      "à±«", "à±¬", "à±­", "à±®", "à±¯",   \* U+0C66
      "à³¦", "à³§", "à³¨", "à³©", "à³ª",
      "à³«", "à³¬", "à³­", "à³®", "à³¯",   \* U+0CE6
      "àµ¦", "àµ§", "àµ¨", "àµ©", "àµª",
      "àµ«", "àµ¬", "àµ­", "àµ®", "àµ¯",   \* U+0D66
      "à·¦", "à·§", "à·¨", "à·©", "à·ª",
      "à·«", "à·¬", "à·­", "à·®", "à·¯",   \* U+0DE6
      "à¹", "à¹", "à¹", "à¹", "à¹",
      "à¹", "à¹", "à¹", "à¹", "à¹",   \* U+0E50
      "à»", "à»", "à»", "à»", "à»",
      "à»", "à»", "à»", "à»", "à»",   \* U+0ED0
      "à¼ ", "à¼¡", "à¼¢", "à¼£", "à¼¤",
      "à¼¥", "à¼¦", "à¼§", "à¼¨", "à¼©",   \* U+0F20
      "á", "á", "á", "á", "á",
      "á", "á", "á", "á", "á",   \* U+1040
      "á", "á", "á", "á", "á",
      "á", "á", "á", "á", "á",   \* U+1090
      "á ", "á¡", "á¢", "á£", "á¤",
      "á¥", "á¦", "á§", "á¨", "á©",   \* U+17E0
      "á ", "á ", "á ", "á ", "á ",
      "á ", "á ", "á ", "á ", "á ",   \* U+1810
      "á¥", "á¥", "á¥", "á¥", "á¥",
      "á¥", "á¥", "á¥", "á¥", "á¥",   \* U+1946
      "á§", "á§", "á§", "á§", "á§",
      "á§", "á§", "á§", "á§", "á§",   \* U+19D0
      "áª", "áª", "áª", "áª", "áª",
      "áª", "áª", "áª", "áª", "áª",   \* U+1A80
      "áª", "áª", "áª", "áª", "áª",
      "áª", "áª", "áª", "áª", "áª",   \* U+1A90
      "á­", "á­", "á­", "á­", "á­",
      "á­", "á­", "á­", "á­", "á­",   \* U+1B50
      "á®°", "á®±", "á®²", "á®³", "á®´",
      "á®µ", "á®¶", "á®·", "á®¸", "á®¹",   \* U+1BB0
      "á±", "á±", "á±", "á±", "á±",
      "á±", "á±", "á±", "á±", "á±",   \* U+1C40
      "á±", "á±", "á±", "á±", "á±",
      "á±", "á±", "á±", "á±", "á±",   \* U+1C50
      "ê ", "ê¡", "ê¢", "ê£", "ê¤",
      "ê¥", "ê¦", "ê§", "ê¨", "ê©",   \* U+A620
      "ê£", "ê£", "ê£", "ê£", "ê£",
      "ê£", "ê£", "ê£", "ê£", "ê£",   \* U+A8D0
      "ê¤", "ê¤", "ê¤", "ê¤", "ê¤",
      "ê¤", "ê¤", "ê¤", "ê¤", "ê¤",   \* U+A900
      "ê§", "ê§", "ê§", "ê§", "ê§",
      "ê§", "ê§", "ê§", "ê§", "ê§",   \* U+A9D0
      "ê§°", "ê§±", "ê§²", "ê§³", "ê§´",
      "ê§µ", "ê§¶", "ê§·", "ê§¸", "ê§¹",   \* U+A9F0
      "ê©", "ê©", "ê©", "ê©", "ê©",
      "ê©", "ê©", "ê©", "ê©", "ê©",   \* U+AA50
      "ê¯°", "ê¯±", "ê¯²", "ê¯³", "ê¯´",
      "ê¯µ", "ê¯¶", "ê¯·", "ê¯¸", "ê¯¹",   \* U+ABF0
      "ï¼", "ï¼", "ï¼", "ï¼", "ï¼",
      "ï¼", "ï¼", "ï¼", "ï¼", "ï¼",   \* U+FF10
      "ð ", "ð¡", "ð¢", "ð£", "ð¤",
      "ð¥", "ð¦", "ð§", "ð¨", "ð©",   \* U+104A0
      "ð´°", "ð´±", "ð´²", "ð´³", "ð´´",
      "ð´µ", "ð´¶", "ð´·", "ð´¸", "ð´¹",   \* U+10D30
      "ð¦", "ð§", "ð¨", "ð©", "ðª",
      "ð«", "ð¬", "ð­", "ð®", "ð¯",   \* U+11066
      "ð°", "ð±", "ð²", "ð³", "ð´",
      "ðµ", "ð¶", "ð·", "ð¸", "ð¹",   \* U+110F0
      "ð¶", "ð·", "ð¸", "ð¹", "ðº",
      "ð»", "ð¼", "ð½", "ð¾", "ð¿",   \* U+11136
      "ð", "ð", "ð", "ð", "ð",
      "ð", "ð", "ð", "ð", "ð",   \* U+111D0
      "ð°", "ð±", "ð²", "ð³", "ð´",
      "ðµ", "ð¶", "ð·", "ð¸", "ð¹",   \* U+112F0
      "ð", "ð", "ð", "ð", "ð",
      "ð", "ð", "ð", "ð", "ð",   \* U+11450
      "ð", "ð", "ð", "ð", "ð",
      "ð", "ð", "ð", "ð", "ð",   \* U+114D0
      "ð", "ð", "ð", "ð", "ð",
      "ð", "ð", "ð", "ð", "ð",   \* U+11650
      "ð", "ð", "ð", "ð", "ð",
      "ð", "ð", "ð", "ð", "ð",   \* U+116C0
      "ð°", "ð±", "ð²", "ð³", "ð´",
      "ðµ", "ð¶", "ð·", "ð¸", "ð¹",   \* U+11730
      "ð£ ", "ð£¡", "ð£¢", "ð££", "ð£¤",
      "ð£¥", "ð£¦", "ð£§", "ð£¨", "ð£©",   \* U+118E0
      "ð¥", "ð¥", "ð¥", "ð¥", "ð¥",
      "ð¥", "ð¥", "ð¥", "ð¥", "ð¥",   \* U+11950
      "ð±", "ð±", "ð±", "ð±", "ð±",
      "ð±", "ð±", "ð±", "ð±", "ð±",   \* U+11C50
      "ðµ", "ðµ", "ðµ", "ðµ", "ðµ",
      "ðµ", "ðµ", "ðµ", "ðµ", "ðµ",   \* U+11D50
      "ð¶ ", "ð¶¡", "ð¶¢", "ð¶£", "ð¶¤",
      "ð¶¥", "ð¶¦", "ð¶§", "ð¶¨", "ð¶©",   \* U+11DA0
      "ð© ", "ð©¡", "ð©¢", "ð©£", "ð©¤",
      "ð©¥", "ð©¦", "ð©§", "ð©¨", "ð©©",   \* U+16A60
      "ð«", "ð«", "ð«", "ð«", "ð«",
      "ð«", "ð«", "ð«", "ð«", "ð«",   \* U+16AC0
      "ð­", "ð­", "ð­", "ð­", "ð­",
      "ð­", "ð­", "ð­", "ð­", "ð­",   \* U+16B50
      "ð", "ð", "ð", "ð", "ð",
      "ð", "ð", "ð", "ð", "ð",   \* U+1D7CE
      "ð", "ð", "ð", "ð", "ð",
      "ð", "ð", "ð", "ð ", "ð¡",   \* U+1D7D8
      "ð¢", "ð£", "ð¤", "ð¥", "ð¦",
      "ð§", "ð¨", "ð©", "ðª", "ð«",   \* U+1D7E2
      "ð¬", "ð­", "ð®", "ð¯", "ð°",
      "ð±", "ð²", "ð³", "ð´", "ðµ",   \* U+1D7EC
      "ð¶", "ð·", "ð¸", "ð¹", "ðº",
      "ð»", "ð¼", "ð½", "ð¾", "ð¿",   \* U+1D7F6
      "ð", "ð", "ð", "ð", "ð",
      "ð", "ð", "ð", "ð", "ð",   \* U+1E140
      "ð°", "ð±", "ð²", "ð³", "ð´",
      "ðµ", "ð¶", "ð·", "ð¸", "ð¹",   \* U+1E2F0
      "ð¥", "ð¥", "ð¥", "ð¥", "ð¥",
      "ð¥", "ð¥", "ð¥", "ð¥", "ð¥",   \* U+1E950
      "ð¯°", "ð¯±", "ð¯²", "ð¯³", "ð¯´",
      "ð¯µ", "ð¯¶", "ð¯·", "ð¯¸", "ð¯¹" }   \* U+1FBF0

\* s[i-1:i-1+w] of Python for a 1-based i, "" when it leaves s
Sub(s, i, w) ==
    IF i >= 1 /\ i + w - 1 <= Len(s) THEN SubSeq(s, i, i + w - 1) ELSE ""

CharAt(s, i) == Sub(s, i, 1)

\* The number of characters of s that the encoding of the digit starting at
\* i takes, 0 when no digit starts there.  No encoding is the beginning of
\* another one, so at most one length fits.
DigitLen(s, i) ==
    CHOOSE w \in 0..4 : \A v \in 1..4 : (Sub(s, i, v) \in Digits) <=> (v = w)

\* Character i of s lies in the encoding of a whitespace.  An encoding
\* occurs in a text only where a code point starts, so the characters
\* around i that spell a whitespace are that whitespace.
IsSpace(s, i) ==
    \E w \in 1..3 : \E k \in 0..(w - 1) : Sub(s, i - k, w) \in Whitespace

\* Character i of s lies in the encoding of a digit.
IsDigit(s, i) ==
    \E w \in 1..4 : \E k \in 0..(w - 1) : Sub(s, i - k, w) \in Digits

\* s[i-1:] of Python for a 1-based i
From(s, i) == SubSeq(s, i, Len(s))

\* s.startswith(t, i-1)
StartsAt(s, t, i) ==
    /\ i >= 1
    /\ i + Len(t) - 1 <= Len(s)
    /\ SubSeq(s, i, i + Len(t) - 1) = t

RECURSIVE FindFrom(_, _, _)
\* s.find(t, i-1) as a 1-based position, 0 for Python's -1
FindFrom(s, t, i) ==
    IF i + Len(t) - 1 > Len(s) THEN 0
    ELSE IF StartsAt(s, t, i) THEN i
    ELSE FindFrom(s, t, i + 1)

Find(s, t) == FindFrom(s, t, 1)

\* t in s
Contains(s, t) == Find(s, t) # 0

RECURSIVE RFindFrom(_, _, _)
RFindFrom(s, t, i) ==
    IF i < 1 THEN 0
    ELSE IF StartsAt(s, t, i) THEN i
    ELSE RFindFrom(s, t, i - 1)

\* s.rfind(t) as a 1-based position, 0 for Python's -1
RFind(s, t) == RFindFrom(s, t, Len(s) - Len(t) + 1)

RECURSIVE LStripFrom(_, _)
LStripFrom(s, i) ==
    IF i > Len(s) THEN ""
    ELSE IF IsSpace(s, i) THEN LStripFrom(s, i + 1)
    ELSE From(s, i)

RECURSIVE RStripTo(_, _)
RStripTo(s, j) ==
    IF j < 1 THEN ""
    ELSE IF IsSpace(s, j) THEN RStripTo(s, j - 1)
    ELSE SubSeq(s, 1, j)

\* s.strip()
Strip(s) == LStripFrom(RStripTo(s, Len(s)), 1)

RECURSIVE ReplaceFrom(_, _, _, _)
ReplaceFrom(s, old, new, i) ==
    LET p == FindFrom(s, old, i)
    IN  IF p = 0 THEN From(s, i)
        ELSE SubSeq(s, i, p - 1) \o new
             \o ReplaceFrom(s, old, new, p + Len(old))

\* s.replace(old, new) for a non-empty old: every occurrence, left to right,
\* occurrences not overlapping
Replace(s, old, new) == ReplaceFrom(s, old, new, 1)

RECURSIVE SplitFrom(_, _, _)
SplitFrom(s, sep, i) ==
    LET p == FindFrom(s, sep, i)
    IN  IF p = 0 THEN <<From(s, i)>>
        ELSE <<SubSeq(s, i, p - 1)>> \o SplitFrom(s, sep, p + Len(sep))

\* s.split(sep)
Split(s, sep) == SplitFrom(s, sep, 1)

RECURSIVE Join(_, _)
\* sep.join(ls)
Join(ls, sep) ==
    IF Len(ls) = 0 THEN ""
    ELSE IF Len(ls) = 1 THEN ls[1]
    ELSE ls[1] \o sep \o Join(Tail(ls), sep)

-----------------------------------------------------------------------------
(* AMOUNT_RE = ([\d,]+\.\d{2}(?:DR)?) and _split_amounts.                  *)

RECURSIVE DigitCommaRun(_, _)
\* the length of the longest run of digits and commas of s starting at i
DigitCommaRun(s, i) ==
    IF IsDigit(s, i) \/ CharAt(s, i) = ","
    THEN 1 + DigitCommaRun(s, i + 1)
    ELSE 0

\* The length of the match of AMOUNT_RE anchored at i, 0 for no match.
\* [\d,]+ is greedy and the next character must be ".", which is neither a
\* digit nor a comma: only the whole run can be followed by it, so
\* backtracking finds no other match.
AmountMatchLen(s, i) ==
    LET n == DigitCommaRun(s, i)
        d1 == DigitLen(s, i + n + 1)
        d2 == DigitLen(s, i + n + 1 + d1)
        m == n + 1 + d1 + d2
    IN  IF /\ n >= 1
           /\ CharAt(s, i + n) = "."
           /\ d1 > 0
           /\ d2 > 0
        THEN m + (IF StartsAt(s, "DR", i + m) THEN 2 ELSE 0)
        ELSE 0

RECURSIVE AmountFindAllFrom(_, _)
\* The scan moves on by one character of s after a failed attempt.  Inside
\* the encoding of a digit no match begins: its run ends where the run from
\* the digit's first character ends, and the attempt there has failed.
AmountFindAllFrom(s, i) ==
    IF i > Len(s) THEN <<>>
    ELSE LET m == AmountMatchLen(s, i)
         IN  IF m > 0
             THEN <<SubSeq(s, i, i + m - 1)>> \o AmountFindAllFrom(s, i + m)
             ELSE AmountFindAllFrom(s, i + 1)

\* AMOUNT_RE.findall(s): the non-overlapping matches, scanning left to right
AmountFindAll(s) == AmountFindAllFrom(s, 1)

\* desc[:idx] + desc[idx + len(a):] when desc.rfind(a) finds a
RemoveRightmost(desc, a) ==
    LET p == RFind(desc, a)
    IN  IF p # 0
        THEN SubSeq(desc, 1, p - 1) \o From(desc, p + Len(a))
        ELSE desc

\* A faulty _split_amounts: a single token is returned as the amount.
SplitAmountsSingleAsAmount(t) ==
    LET amounts == AmountFindAll(t)
        n == Len(amounts)
    IN  IF n >= 2
        THEN LET amount == amounts[n - 1]
                 balance == amounts[n]
                 desc == RemoveRightmost(RemoveRightmost(t, amount), balance)
             IN  <<Strip(desc), amount, balance>>
        ELSE IF n = 1
        THEN <<Strip(Replace(t, amounts[1], "")), amounts[1], "">>
        ELSE <<Strip(t), "", "">>

\* The body of _split_amounts(text) after amounts = AMOUNT_RE.findall(text).
SplitFound(t, amounts) ==
    LET n == Len(amounts)
    IN  IF n >= 2
        THEN LET amount == amounts[n - 1]
                 balance == amounts[n]
                 desc == RemoveRightmost(RemoveRightmost(t, amount), balance)
             IN  <<Strip(desc), amount, balance>>
        ELSE IF n = 1
        THEN LET balance == amounts[1]
             IN  <<Strip(Replace(t, balance, "")), "", balance>>
        ELSE <<Strip(t), "", "">>

\* _split_amounts(text): <<description part, amount, balance>>
SplitAmounts(t) == SplitFound(t, AmountFindAll(t))

-----------------------------------------------------------------------------
(* isolate_transactions.                                                   *)

StartMarker == "Balance Carried Forward"

FooterMarkers == {"We find ways", "Please review"}

HasStartMarker(line) == Contains(line, StartMarker)

HasFooterMarker(line) == \E f \in FooterMarkers : Contains(line, f)

RECURSIVE IsolateLoop(_, _, _, _)
\* The for loop over enumerate(lines), at the 0-based position i, as
\* <<start_idx, end_idx>>; start_idx is -1 for None.
IsolateLoop(ls, i, start_idx, end_idx) ==
    IF i >= Len(ls) THEN <<start_idx, end_idx>>
    ELSE LET line == ls[i + 1]
             s == IF HasStartMarker(line) THEN i + 1 ELSE start_idx
         IN  IF HasFooterMarker(line)
             THEN <<s, i>>
             ELSE IsolateLoop(ls, i + 1, s, end_idx)

\* ls[a:b] of Python, 0 <= a
Slice(ls, a, b) ==
    IF a >= b \/ a >= Len(ls) THEN <<>>
    ELSE SubSeq(ls, a + 1, IF b > Len(ls) THEN Len(ls) ELSE b)

\* [l for l in ls if l.strip()]
NonBlank(ls) == SelectSeq(ls, LAMBDA l : Strip(l) # "")

\* raw_text.strip().split("\n")
TextLines(raw) == Split(Strip(raw), "\n")

\* isolate_transactions(raw_text): raised is TRUE when the ValueError is
\* raised, and value is the returned list otherwise.
IsolateTransactions(raw) ==
    LET ls == TextLines(raw)
        se == IsolateLoop(ls, 0, -1, Len(ls))
    IN  IF se[1] = -1
        THEN [raised |-> TRUE, value |-> <<>>]
        ELSE [raised |-> FALSE, value |-> NonBlank(Slice(ls, se[1], se[2]))]

-----------------------------------------------------------------------------
(* DATE_LINE_RE, the value-date pattern and parse_transactions.            *)

RECURSIVE SpaceRun(_, _)
\* the length of the longest run of whitespace of s starting at i
SpaceRun(s, i) == IF IsSpace(s, i) THEN 1 + SpaceRun(s, i + 1) ELSE 0

\* (.*) at i: "." matches every character but the line feed
DotStar(s, i) ==
    LET p == FindFrom(s, "\n", i)
    IN  IF i > Len(s) THEN ""
        ELSE IF p = 0 THEN From(s, i)
        ELSE SubSeq(s, i, p - 1)

\* re.match of (\d{1,2}\s+MAY) followed by whitespace and (.*), with at
\* least minTrail whitespace characters between the two groups.  \d{1,2}
\* takes two digits when a whitespace follows them, else one; after a
\* third digit neither choice is followed by whitespace.
DateMatch(s, minTrail) ==
    LET d1 == DigitLen(s, 1)
        d2 == DigitLen(s, d1 + 1)
        d == IF d1 > 0 /\ d2 > 0 /\ IsSpace(s, d1 + d2 + 1) THEN d1 + d2
             ELSE IF d1 > 0 /\ IsSpace(s, d1 + 1) THEN d1
             ELSE 0
        w == SpaceRun(s, d + 1)
        e == d + w + 3
        t == SpaceRun(s, e + 1)
    IN  IF d > 0 /\ StartsAt(s, "MAY", d + w + 1) /\ t >= minTrail
        THEN [matched |-> TRUE,
              date |-> SubSeq(s, 1, e),
              rest |-> DotStar(s, e + t + 1)]
        ELSE [matched |-> FALSE, date |-> "", rest |-> ""]

\* DATE_LINE_RE.match(s): ^(\d{1,2}\s+MAY)\s+(.*)
DateLineMatch(s) == DateMatch(s, 1)

\* re.match(r"(\d{1,2}\s+MAY)\s*(.*)", s)
ValueDateMatch(s) == DateMatch(s, 0)

BFBalance == "B/F Balance"

Tx(date_posted, value_date, cheque_number, description, amount, balance) ==
    ("Date Posted" :> date_posted) @@ ("Value Date" :> value_date)
    @@ ("Cheque Number" :> cheque_number) @@ ("Description" :> description)
    @@ ("Amount" :> amount) @@ ("Balance" :> balance)

\* The record a date line opens, from the two groups of DATE_LINE_RE.
NewRecord(date_posted, group2) ==
    LET rest == Strip(group2)
    IN  IF Contains(rest, BFBalance)
        THEN Tx(date_posted, BFBalance, "", "", "", SplitAmounts(rest)[3])
        ELSE LET vd == ValueDateMatch(rest)
                 value_date == IF vd.matched THEN vd.date ELSE ""
                 remainder == IF vd.matched THEN Strip(vd.rest) ELSE rest
                 sa == SplitAmounts(remainder)
             IN  Tx(date_posted, value_date, "", sa[1], sa[2], sa[3])

\* A faulty append: the separator is written before the first fragment too.
AppendDescriptionAlwaysSpace(cur, line_stripped) ==
    [cur EXCEPT !["Description"] = @ \o " " \o line_stripped]

\* A continuation line appended to the open record's description.
AppendDescription(cur, line_stripped) ==
    IF cur["Description"] # ""
    THEN [cur EXCEPT !["Description"] = @ \o " " \o line_stripped]
    ELSE [cur EXCEPT !["Description"] = line_stripped]

\* A faulty loop body: a date line replaces the open record without
\* appending it to the list.
ParseStepNoSeal(cur, txs, line) ==
    LET line_stripped == Strip(line)
        match == DateLineMatch(line_stripped)
    IN  IF line_stripped = ""
        THEN [current |-> cur, transactions |-> txs]
        ELSE IF match.matched
        THEN [current |-> NewRecord(match.date, match.rest),
              transactions |-> txs]
        ELSE [current |-> IF cur # None
                          THEN [cur EXCEPT !["Description"] =
                                    IF @ # "" THEN @ \o " " \o line_stripped
                                    ELSE line_stripped]
                          ELSE cur,
              transactions |-> txs]

\* One iteration of the for loop of parse_transactions on `line`:
\* the new values of current and transactions.
ParseStep(cur, txs, line) ==
    LET line_stripped == Strip(line)
        match == DateLineMatch(line_stripped)
    IN  IF line_stripped = ""
        THEN [current |-> cur, transactions |-> txs]
        ELSE IF match.matched
        THEN [current |-> NewRecord(match.date, match.rest),
              transactions |-> IF cur # None THEN Append(txs, cur) ELSE txs]
        ELSE [current |-> IF cur # None
                          THEN AppendDescription(cur, line_stripped)
                          ELSE cur,
              transactions |-> txs]

-----------------------------------------------------------------------------
(* OCR_CORRECTIONS, LEADING_SPACE_DESCRIPTIONS and apply_corrections.      *)

\* the dict, in its insertion order
OCR_CORRECTIONS ==
    << <<"IBITW", "IBTW">>,
       <<"POB IBFT BN-20240527-13444432", "POB IBFT BN-20240527-1344432">>,
       <<"024148444432", "02414980440">>,
       <<"024149890440", "02414980440">>,
       <<"480752480752", "487052487052">>,
       <<"FT SA-CA DIGIFI POB", "FT SA-CA DIGIT POP">>,
       <<"PC-NDBMOB-20240529-14491015", "PC-NBDB02-20240529-14491015">> >>

LEADING_SPACE_DESCRIPTIONS ==
    << <<"102440020794 9 IBTD 515549515549",
         " 102440020794 9 IBTD 515549515549">> >>

RECURSIVE SubstringCorrections(_, _)
\* for wrong, right in OCR_CORRECTIONS.items(): desc = desc.replace(..)
SubstringCorrections(desc, k) ==
    IF k > Len(OCR_CORRECTIONS) THEN desc
    ELSE SubstringCorrections(
             Replace(desc, OCR_CORRECTIONS[k][1], OCR_CORRECTIONS[k][2]),
             k + 1)

\* if desc in LEADING_SPACE_DESCRIPTIONS: desc = LEADING_SPACE_..[desc]
LeadingSpaceCorrection(desc) ==
    IF \E k \in 1..Len(LEADING_SPACE_DESCRIPTIONS) :
           LEADING_SPACE_DESCRIPTIONS[k][1] = desc
    THEN LET k == CHOOSE j \in 1..Len(LEADING_SPACE_DESCRIPTIONS) :
                      LEADING_SPACE_DESCRIPTIONS[j][1] = desc
         IN  LEADING_SPACE_DESCRIPTIONS[k][2]
    ELSE desc

\* the body of the for loop of apply_corrections on one record
CorrectRecord(tx) ==
    [tx EXCEPT !["Description"] =
         LeadingSpaceCorrection(SubstringCorrections(@, 1))]

\* A faulty pass: only the records that have a description are returned.
ApplyCorrectionsSkipEmpty(txs) ==
    LET kept == SelectSeq(txs, LAMBDA tx : tx["Description"] # "")
    IN  [k \in 1..Len(kept) |->
            [kept[k] EXCEPT !["Description"] =
                 LeadingSpaceCorrection(SubstringCorrections(@, 1))]]

\* apply_corrections(transactions)
ApplyCorrections(txs) == [k \in 1..Len(txs) |-> CorrectRecord(txs[k])]

-----------------------------------------------------------------------------
(* The inputs the specifications draw from.                                *)

SeqsUpTo(S, n) == UNION {[1..k -> S] : k \in 0..n}

\* OCR lines of a statement page: header, table rows, footer
RawPool ==
    { "Balance Carried Forward",
      "We find ways",
      "Please review Balance Carried Forward",
      " \t" \o Utf8(160),
      "01 MAY B/F Balance 9,053.38",
      "15 MAY 15 MAY FT IBITW 1,000.00 10,053.38",
      "27 MAY 27 MAY 102440020794 9 IBTD 515549515549 7,010.00DR 3,043.38",
      "continued note" }

RawTexts == {Join(ls, "\n") : ls \in SeqsUpTo(RawPool, MaxRawLines)}

\* lines handed to parse_transactions
ParsePool ==
    { "15 MAY 15 MAY PAYMENT FROM CLIENT A 1,000.00 10,053.38",
      "continued note",
      "01 MAY B/F Balance 9,053.38",
      "15 MAY",
      "16 MAY CASH DEPOSIT",
      "17 MAY 17 MAY FEE 7,010.00DR",
      " " \o Utf8(8195) \o " ",
      " 3,043.38 note ",
      Utf8(1637) \o " MAY 6" \o Utf8(160) \o "MAY 1.00 2.00" }

ParseInputs == SeqsUpTo(ParsePool, MaxParseLines)

\* fragments handed to _split_amounts
SplitTokens == {"1.00", "11.00", "2.00", "2.00DR", "1,000.00"}

SplitTexts ==
    {p \o a \o m \o b \o q :
        p \in {"", "PAY ", " A1 "}, a \in SplitTokens, m \in {" ", " x "},
        b \in SplitTokens, q \in {"", " note "}}
    \cup {"", " CASH DEPOSIT ", "FEE 7,010.00DR", "5.00 3.00 5.00",
          "PAY " \o Utf8(1633) \o ".00" \o Utf8(160) \o "2.0" \o Utf8(1632)}

-----------------------------------------------------------------------------
(* The state machine.                                                      *)

\* main() at Step 3, holding the OCR text
Init ==
    /\ pc = "isolate"
    /\ raw_text \in RawTexts
    /\ text = ""
    /\ split_ret = None
    /\ section = <<>>
    /\ lines = <<>>
    /\ idx = 1
    /\ current = None
    /\ parsed = <<>>
    /\ transactions = <<>>

\* a call of parse_transactions(lines)
InitParse ==
    /\ pc = "parse"
    /\ lines \in ParseInputs
    /\ text = ""
    /\ split_ret = None
    /\ raw_text = ""
    /\ section = <<>>
    /\ idx = 1
    /\ current = None
    /\ parsed = <<>>
    /\ transactions = <<>>

\* a call of _split_amounts(text)
InitSplit ==
    /\ pc = "split"
    /\ text \in SplitTexts
    /\ split_ret = None
    /\ raw_text = ""
    /\ section = <<>>
    /\ lines = <<>>
    /\ idx = 1
    /\ current = None
    /\ parsed = <<>>
    /\ transactions = <<>>

\* Step 3 of main(): tx_lines = isolate_transactions(raw_text); the
\* ValueError is not caught and ends main().
Isolate ==
    /\ pc = "isolate"
    /\ LET r == IsolateTransactions(raw_text)
       IN  IF r.raised
           THEN /\ pc' = "raised"
                /\ UNCHANGED <<section, lines>>
           ELSE /\ pc' = "parse"
                /\ section' = r.value
                /\ lines' = r.value
    /\ idx' = 1
    /\ current' = None
    /\ transactions' = <<>>
    /\ UNCHANGED <<text, split_ret, raw_text, parsed>>

\* one iteration of the for loop of parse_transactions
ParseLine ==
    /\ pc = "parse"
    /\ idx <= Len(lines)
    /\ LET r == ParseStep(current, transactions, lines[idx])
       IN  /\ current' = r.current
           /\ transactions' = r.transactions
    /\ idx' = idx + 1
    /\ UNCHANGED <<pc, text, split_ret, raw_text, section, lines, parsed>>

\* the end of the loop: the open record is appended and the list returned
ParseReturn ==
    /\ pc = "parse"
    /\ idx > Len(lines)
    /\ transactions' = IF current # None
                       THEN Append(transactions, current)
                       ELSE transactions
    /\ pc' = "correct"
    /\ UNCHANGED <<text, split_ret, raw_text, section, lines, idx, current,
                   parsed>>

\* Step 5 of main(): transactions = apply_corrections(transactions)
Correct ==
    /\ pc = "correct"
    /\ parsed' = transactions
    /\ transactions' = ApplyCorrections(transactions)
    /\ pc' = "export"
    /\ UNCHANGED <<text, split_ret, raw_text, section, lines, idx, current>>

\* _split_amounts(text) returns
SplitCall ==
    /\ pc = "split"
    /\ split_ret' = SplitAmounts(text)
    /\ pc' = "returned"
    /\ UNCHANGED <<text, raw_text, section, lines, idx, current, parsed,
                   transactions>>

Next == Isolate \/ ParseLine \/ ParseReturn \/ Correct

Spec == Init /\ [][Next]_vars

NextParse == ParseLine \/ ParseReturn

SpecParse == InitParse /\ [][NextParse]_vars

\* The control of the for loop: on to the next line, or out of the loop.
LoopAdvance ==
    /\ pc = "parse"
    /\ \/ idx <= Len(lines) /\ idx' = idx + 1 /\ pc' = pc
       \/ idx > Len(lines) /\ idx' = idx /\ pc' = "correct"

\* The loop is sequential code whose body neither raises nor waits: its
\* control always moves on.
SpecParseLive == SpecParse /\ WF_<<pc, idx>>(LoopAdvance)

NextSplit == SplitCall

SpecSplit == InitSplit /\ [][NextSplit]_vars

-----------------------------------------------------------------------------
(* _split_amounts: the two-token contract.                                 *)

\* C1: for every fragment with exactly two monetary tokens, _split_amounts
\* returns amount equal to the first token, balance equal to the second,
\* and a description that contains neither token as a substring.
C1_TwoTokensRemoved ==
    (pc = "returned" /\ Len(AmountFindAll(text)) = 2) =>
        LET toks == AmountFindAll(text)
        IN  /\ split_ret[2] = toks[1]
            /\ split_ret[3] = toks[2]
            /\ ~Contains(split_ret[1], toks[1])
            /\ ~Contains(split_ret[1], toks[2])

-----------------------------------------------------------------------------
(* isolate_transactions: the boundaries of the section.                    *)

\* the line sequence isolate_transactions works on
InputLines == TextLines(raw_text)

MarkerLines ==
    {i \in 1..Len(InputLines) : Contains(InputLines[i], StartMarker)}

FooterLines ==
    {i \in 1..Len(InputLines) :
        \/ Contains(InputLines[i], "We find ways")
        \/ Contains(InputLines[i], "Please review")}

MinOf(S) == CHOOSE x \in S : \A y \in S : x <= y

\* the first footer line after line f, or the end of input
EndBoundary(f) ==
    MinOf({j \in FooterLines : j > f} \cup {Len(InputLines) + 1})

\* the non-blank lines strictly between line f and the end boundary after f
SectionAfter(f) ==
    SelectSeq(SubSeq(InputLines, f + 1, EndBoundary(f) - 1),
              LAMBDA l : Strip(l) # "")

Isolated == pc \notin {"isolate", "raised"}

\* C2: the section starts right after the FIRST line containing the start
\* marker, also when several lines before the footer contain it: no
\* non-blank line after the first marker line is dropped.  (Stated for the
\* inputs whose footer lines all come after the first marker line, where
\* the end boundary is not in question.)
C2_StartsAfterFirstMarker ==
    (/\ pc # "isolate"
     /\ MarkerLines # {}
     /\ \A j \in FooterLines : j > MinOf(MarkerLines)) =>
        /\ Isolated
        /\ section = SectionAfter(MinOf(MarkerLines))

\* C3: with a start marker in the input, the section ends just before the
\* first footer line AFTER the start boundary, or at the end of input; a
\* footer marker before or on the start-marker line does not end it.
\* (Stated for the inputs with exactly one marker line, where the start
\* boundary is not in question.)
C3_EndsAtFooterAfterStart ==
    (pc # "isolate" /\ Cardinality(MarkerLines) = 1) =>
        /\ Isolated
        /\ section = SectionAfter(CHOOSE f \in MarkerLines : TRUE)

\* C4: isolate_transactions raises (and main() produces no record) exactly
\* when no line of the input contains the start marker.
C4_LayoutErrorIffNoMarker ==
    (pc # "isolate") =>
        /\ (pc = "raised") <=> ~Contains(raw_text, StartMarker)
        /\ (pc = "raised") => (transactions = <<>> /\ parsed = <<>>)

-----------------------------------------------------------------------------
(* parse_transactions: the records and the lines they come from.           *)

\* line i of the argument is one the loop takes for the start of a record
IsStart(i) == DateLineMatch(Strip(lines[i])).matched

RECURSIVE StartsUpTo(_)
\* the positions of the start lines among the first n lines, ascending
StartsUpTo(n) ==
    IF n = 0 THEN <<>>
    ELSE IF IsStart(n) THEN Append(StartsUpTo(n - 1), n)
    ELSE StartsUpTo(n - 1)

\* the lines the loop has been through
Processed == idx - 1

Parsing == pc \in {"parse", "correct"}

\* the records built so far: the sealed ones, then the open one
RecordsSoFar ==
    IF pc = "parse" /\ current # None
    THEN Append(transactions, current)
    ELSE transactions

\* the record start line i opens, before any continuation line
OpenedBy(i) ==
    LET m == DateLineMatch(Strip(lines[i]))
    IN  NewRecord(m.date, m.rest)

\* C5: at most one returned record has Value Date "B/F Balance"; it is the
\* first record and its Amount is empty.
C5_SingleLeadingBF ==
    (pc = "correct") =>
        LET bf == {k \in 1..Len(transactions) :
                      transactions[k]["Value Date"] = BFBalance}
        IN  /\ Cardinality(bf) <= 1
            /\ \A k \in bf : k = 1 /\ transactions[k]["Amount"] = ""

\* C6 as claimed: every returned record has a non-empty Balance, and every
\* record that is not the B/F row has a non-empty Amount.
C6_AlwaysPopulated ==
    (pc = "correct") =>
        \A k \in 1..Len(transactions) :
            /\ transactions[k]["Balance"] # ""
            /\ transactions[k]["Value Date"] # BFBalance
                   => transactions[k]["Amount"] # ""

\* C6 as amended: a returned record has a non-empty Balance exactly when
\* its start line carries at least one monetary token, and a record that is
\* not the B/F row has a non-empty Amount exactly when its start line
\* carries at least two; the B/F row has an empty Amount.  Tokens on
\* continuation lines fill neither field.
C6_PopulatedFromStartLine ==
    (pc = "correct") =>
        LET S == StartsUpTo(Len(lines))
        IN  /\ Len(transactions) = Len(S)
            /\ \A k \in 1..Len(transactions) :
                   LET n == Len(AmountFindAll(Strip(lines[S[k]])))
                       tx == transactions[k]
                   IN  /\ (tx["Balance"] # "") <=> (n >= 1)
                       /\ tx["Value Date"] = BFBalance => tx["Amount"] = ""
                       /\ tx["Value Date"] # BFBalance
                              => ((tx["Amount"] # "") <=> (n >= 2))

\* a record with both fields empty although an amount follows on a
\* continuation line
C6_Witness ==
    /\ pc = "correct"
    /\ \E k \in 1..Len(transactions) :
           /\ transactions[k]["Balance"] = ""
           /\ transactions[k]["Amount"] = ""
           /\ Len(AmountFindAll(transactions[k]["Description"])) >= 1

RECURSIVE DigitsLen(_, _, _)
\* the length of the n digits of s that start at i, 0 when fewer start there
DigitsLen(s, i, n) ==
    IF n = 0 THEN 0
    ELSE LET d == DigitLen(s, i)
             r == DigitsLen(s, i + d, n - 1)
         IN  IF d = 0 \/ (n > 1 /\ r = 0) THEN 0 ELSE d + r

\* s begins with a 1-2 digit day, whitespace and MAY
BeginsWithDateToken(s) ==
    \E n \in {1, 2} :
        LET d == DigitsLen(s, 1, n)
        IN  /\ d > 0
            /\ IsSpace(s, d + 1)
            /\ StartsAt(s, "MAY", d + SpaceRun(s, d + 1) + 1)

\* C8: a non-blank stripped line opens a new record if and only if it
\* begins with a 1-2 digit day, whitespace and MAY: the records opened so
\* far are as many as such lines among the lines gone through.
C8_StartIffDateToken ==
    Parsing =>
        Len(RecordsSoFar) =
            Cardinality({i \in 1..Processed :
                            BeginsWithDateToken(Strip(lines[i]))})

SameButDescription(a, b) ==
    /\ DOMAIN a = DOMAIN b
    /\ \A f \in DOMAIN a \ {"Description"} : a[f] = b[f]

\* one record per start line gone through, in the order of the lines; all
\* but the last are sealed while the loop runs, all are once it has returned
OneRecordPerStartLine ==
    Parsing =>
        LET S == StartsUpTo(Processed)
        IN  /\ Processed <= Len(lines)
            /\ pc = "correct" => Processed = Len(lines)
            /\ Len(RecordsSoFar) = Len(S)
            /\ pc = "parse" => (current = None <=> Len(S) = 0)
            /\ pc = "parse" =>
                   Len(transactions) = (IF Len(S) = 0 THEN 0 ELSE Len(S) - 1)
            /\ \A k \in 1..Len(S) :
                   SameButDescription(RecordsSoFar[k], OpenedBy(S[k]))

\* C9: parse_transactions terminates and returns exactly one record per
\* start line, in input order; an open record is sealed by the next start
\* line or by the end of input, and continuation lines arriving while no
\* record is open create and change no record.
C9_OneRecordPerStartLine ==
    /\ []OneRecordPerStartLine
    /\ <>(pc = "correct")

\* two records returned from an input whose first line is a continuation
\* line arriving with no record open
C9_Witness ==
    /\ pc = "correct"
    /\ Len(transactions) >= 2
    /\ Strip(lines[1]) # ""
    /\ ~IsStart(1)

\* the description of the k-th record after the first n lines: that of its
\* start line, then the stripped non-blank lines up to the next start line
ExpectedDescription(k, n) ==
    LET S == StartsUpTo(n)
        s == S[k]
        e == IF k < Len(S) THEN S[k + 1] ELSE n + 1
        conts == SelectSeq([j \in 1..(e - s - 1) |-> Strip(lines[s + j])],
                           LAMBDA l : l # "")
        first == OpenedBy(s)["Description"]
    IN  Join((IF first = "" THEN <<>> ELSE <<first>>) \o conts, " ")

\* C10: every record's Description is the description part of its start
\* line followed by the stripped continuation lines up to the next start
\* line, in input order, joined by single spaces with no leading or
\* trailing separator; no continuation line reaches a sealed or a later
\* record.
C10_DescriptionInOrder ==
    Parsing =>
        /\ Len(RecordsSoFar) = Len(StartsUpTo(Processed))
        /\ \A k \in 1..Len(RecordsSoFar) :
               RecordsSoFar[k]["Description"]
                   = ExpectedDescription(k, Processed)

\* the example of the claim
C10_Witness ==
    /\ pc = "correct"
    /\ lines = <<"15 MAY 15 MAY PAYMENT FROM CLIENT A 1,000.00 10,053.38",
                 "continued note">>
    /\ Len(transactions) = 1
    /\ transactions[1]["Description"] = "PAYMENT FROM CLIENT A continued note"

-----------------------------------------------------------------------------
(* apply_corrections: the frame.                                           *)

\* C7: apply_corrections returns as many records in the same order, each
\* with Date Posted, Value Date, Cheque Number, Amount and Balance as they
\* were before the pass.
C7_OnlyDescriptionChanges ==
    (pc = "export") =>
        /\ Len(transactions) = Len(parsed)
        /\ \A k \in 1..Len(parsed) :
               SameButDescription(transactions[k], parsed[k])

\* a pass that rewrote a description
C7_Witness ==
    /\ pc = "export"
    /\ \E k \in 1..Len(parsed) :
           transactions[k]["Description"] # parsed[k]["Description"]

=============================================================================
